---- MODULE Spec2Model ----
(***************************************************************************)
(* Block world of src/main.go: chunk streaming (updateChunks, loadChunk,   *)
(* generateChunk), the block list (isBlockAt, addBlock, removeBlock) and   *)
(* the per-frame handler Game.Update with its two collision phases.        *)
(*                                                                         *)
(* Numbers.  Every float64 length of the program is a multiple of 0.5      *)
(* (Gravity); the model stores lengths and velocities as integers counted  *)
(* in 1/Unit, so 50 is written 50 * Unit.                                  *)
(*                                                                         *)
(* Noise.  PerlinNoise.perm is a shuffle by math/rand under seed 12345;    *)
(* its values are not derivable from the source text.  OctaveNoise is      *)
(* therefore read from the variable noise, a field chosen in Init and      *)
(* never changed, in hundredths.  What the source does fix is kept: at     *)
(* integer lattice points Noise2D is 0 (grad(h, 0, 0) = 0).                *)
(*                                                                         *)
(* Left out: camera smoothing, the hover highlight and Draw (presentation, *)
(* no effect on the block list or the player).  The mouse position in      *)
(* world coordinates is an input of each step.                             *)
(***************************************************************************)
EXTENDS Integers, Sequences, FiniteSets, TLC

VARIABLES g, noise, last, steps

vars == <<g, noise, last, steps>>

(* ---------------- program constants (src/main.go:15-42) --------------- *)
Unit == 2
PlayerSize == 50 * Unit
PlayerSpeed == 4 * Unit
Gravity == Unit \div 2
JumpPower == 12 * Unit
PlayerMaxFall == 10 * Unit
BlockSize == 50 * Unit
ChunkSize == 10
ChunkWorldSize == BlockSize * ChunkSize
GameModeCreative == 15
GameModeSurvival == 16
MaxPlaceDistance == 5 * BlockSize

ItemTypeGrass == 0
ItemTypeDirt == 1
ItemTypeStone == 2
ItemTypeSand == 3
ItemTypeWood == 4
ItemTypeWater == 5
ItemTypeLava == 6
ItemTypeSnow == 7

TerrainTypePlains == 0
TerrainTypeHills == 1
TerrainTypeMountains == 2
TerrainTypeDesert == 3
TerrainTypeForest == 4
TerrainTypeSnowyPlains == 5
TerrainTypeSwamp == 6
TerrainTypeJungle == 7
TerrainTypeTaiga == 8
TerrainTypeSavanna == 9
TerrainTypeCanyon == 10

(* ---------------- bounds of the model --------------------------------- *)
MaxSteps == 2
MaxDigSteps == 50
MaxKeySteps == 12
MaxBlocks == 2
MaxEditSteps == 2
MaxNoise == 5
MaxChunk == 4

\* int(a / b): the quotient rounded toward zero instead of down
FloorTowardZero(a, b) ==
    IF a >= 0 THEN a \div b ELSE -((-a) \div b)

(* ---------------- arithmetic helpers ---------------------------------- *)
\* math.Floor(a / b) for b > 0
Floor(a, b) == a \div b

\* Go's int(a / b): truncation toward zero, b > 0
Trunc(a, b) == IF a >= 0 THEN a \div b ELSE -((-a) \div b)

Abs(a) == IF a < 0 THEN -a ELSE a

\* Block{x, y, w, h, t}
Block(x, y, w, h, t) == [X |-> x, Y |-> y, W |-> w, H |-> h, Type |-> t]

getBlockCoordinate(worldCoord) == Floor(worldCoord, BlockSize) * BlockSize

\* the overlap test that counts touching edges
checkCollisionTouching(a, b) ==
    /\ a.X <= b.X + b.W
    /\ a.X + a.W >= b.X
    /\ a.Y <= b.Y + b.H
    /\ a.Y + a.H >= b.Y

checkCollision(a, b) ==
    /\ a.X < b.X + b.W
    /\ a.X + a.W > b.X
    /\ a.Y < b.Y + b.H
    /\ a.Y + a.H > b.Y

\* fmt.Sprintf("%d,%d", x, y)
chunkKey(x, y) == ToString(x) \o "," \o ToString(y)

(* ---------------- block list ------------------------------------------ *)
isBlockAt(gm, x, y) ==
    \E i \in 1..Len(gm.blocks) : gm.blocks[i].X = x /\ gm.blocks[i].Y = y

\* isBlockAdjacent without the rule for the row y = 0
isBlockAdjacentNoGround(gm, x, y) ==
    \/ isBlockAt(gm, x, y - BlockSize)
    \/ isBlockAt(gm, x, y + BlockSize)
    \/ isBlockAt(gm, x - BlockSize, y)
    \/ isBlockAt(gm, x + BlockSize, y)

isBlockAdjacent(gm, x, y) ==
    \/ isBlockAt(gm, x, y - BlockSize)
    \/ isBlockAt(gm, x, y + BlockSize)
    \/ isBlockAt(gm, x - BlockSize, y)
    \/ isBlockAt(gm, x + BlockSize, y)
    \/ y = 0

\* distance(x1, y1, x2, y2) squared; the source compares the square root
\* with MaxPlaceDistance, the model the square with its square
distanceSq(x1, y1, x2, y2) == (x2 - x1) * (x2 - x1) + (y2 - y1) * (y2 - y1)

\* the condition of addBlock's Survival case: in reach and next to a block
survivalRule(gm, x, y) ==
    LET playerCenterX == gm.playerX + PlayerSize \div 2
        playerCenterY == gm.playerY + PlayerSize \div 2
        blockCenterX == x + BlockSize \div 2
        blockCenterY == y + BlockSize \div 2
    IN /\ distanceSq(playerCenterX, playerCenterY, blockCenterX, blockCenterY)
            <= MaxPlaceDistance * MaxPlaceDistance
       /\ isBlockAdjacent(gm, x, y)

\* g.blocks = append(g.blocks, Block{x, y, BlockSize, BlockSize, blockType})
appendBlock(gm, x, y) ==
    [gm EXCEPT !.blocks =
        Append(@, Block(x, y, BlockSize, BlockSize, gm.currentItemType))]

\* addBlock without the test for a block at the cell
addBlockUnchecked(gm, x, y) ==
    IF gm.gameMode = GameModeCreative \/ survivalRule(gm, x, y)
    THEN appendBlock(gm, x, y) ELSE gm

\* addBlock with the test for a block at the cell in Survival mode only
addBlockCreativeUnchecked(gm, x, y) ==
    IF gm.gameMode = GameModeCreative THEN appendBlock(gm, x, y)
    ELSE IF ~isBlockAt(gm, x, y) /\ survivalRule(gm, x, y)
    THEN appendBlock(gm, x, y) ELSE gm

\* addBlock with the survival rule in both modes
addBlockSurvivalRules(gm, x, y) ==
    IF ~isBlockAt(gm, x, y) /\ survivalRule(gm, x, y)
    THEN appendBlock(gm, x, y) ELSE gm

\* addBlock without the distance test
addBlockNoDistance(gm, x, y) ==
    IF ~isBlockAt(gm, x, y)
       /\ (gm.gameMode = GameModeCreative \/ isBlockAdjacent(gm, x, y))
    THEN appendBlock(gm, x, y) ELSE gm

addBlock(gm, x, y) ==
    IF isBlockAt(gm, x, y) THEN gm
    ELSE IF gm.gameMode = GameModeCreative THEN appendBlock(gm, x, y)
    ELSE IF gm.gameMode = GameModeSurvival /\ survivalRule(gm, x, y)
    THEN appendBlock(gm, x, y)
    ELSE gm

\* removeBlock without the break: every block at (x, y) goes
removeBlockAll(gm, x, y) ==
    [gm EXCEPT !.blocks =
        SelectSeq(@, LAMBDA b : ~(b.X = x /\ b.Y = y))]

\* the loop stops at the first block at (x, y)
removeBlock(gm, x, y) ==
    LET at(i) == gm.blocks[i].X = x /\ gm.blocks[i].Y = y
    IN IF ~isBlockAt(gm, x, y) THEN gm
       ELSE LET i == CHOOSE k \in 1..Len(gm.blocks) :
                        at(k) /\ \A j \in 1..(k - 1) : ~at(j)
            IN [gm EXCEPT !.blocks =
                   SubSeq(@, 1, i - 1) \o SubSeq(@, i + 1, Len(@))]

(* ---------------- the noise fields ------------------------------------ *)
\* a noise field gives, per signal, the value of OctaveNoise off the
\* lattice, in hundredths
FlatField ==
    [base |-> 0, detail |-> 0, mountain |-> 0, continental |-> 0,
     cave |-> 0, tree |-> 0, treeHeight |-> 0, cactus |-> 0, water |-> 0]

\* the fields of the runs that start at the spawn: the columns next to the
\* spawn column are level with it or one block lower
SpawnFields == {FlatField, [FlatField EXCEPT !.base = MaxNoise]}

\* fields with high ground away from the spawn: a forest with trees, a
\* desert with cacti, and ground with caves
ForestField ==
    [FlatField EXCEPT !.base = 25, !.detail = 40, !.continental = 10, !.tree = 70]
DesertField == [FlatField EXCEPT !.base = 25, !.continental = -50, !.cactus = 80]
CaveField == [FlatField EXCEPT !.base = 20, !.cave = 80]
HillField == [FlatField EXCEPT !.base = 25, !.continental = 30]
MountainField == [FlatField EXCEPT !.base = 25, !.continental = 50]

GenFields ==
    {FlatField, ForestField, DesertField, CaveField, HillField, MountainField}

NoiseFields == SpawnFields \cup GenFields

\* Noise2D on a lattice row (a whole y) is at most (1-u)*t + u*(1-t) in
\* size at distance t from a lattice point, u = fade(t).  For the columns
\* |x| <= NearColumns this limits the signals of low frequency, in
\* hundredths: the base height (scale 0.01, 4 octaves, row 0), the detail
\* (scale 0.05, 3 octaves, row 100 * 0.05 = 5) and the mountains (scale
\* 0.005, row 200 * 0.005 = 1).  The first octave of the continental
\* signal is read on the row 300 * 0.005 = 1.5, half way between two
\* lattice rows, where it can reach 0.5 + t; its two other octaves are on
\* lattice rows.
NearColumns == 3
BaseNearCap == 8
DetailNearCap == 33
MountainNearCap == 3
ContinentalNearCap == 32

clamp(v, cap) == IF v > cap THEN cap ELSE IF v < -cap THEN -cap ELSE v

\* the values the signals of a field can take at column x
nearSpawn(tg, x) ==
    IF Abs(x) > NearColumns THEN tg
    ELSE [tg EXCEPT !.base = clamp(@, BaseNearCap),
                    !.detail = clamp(@, DetailNearCap),
                    !.mountain = clamp(@, MountainNearCap),
                    !.continental = clamp(@, ContinentalNearCap)]

(* ---------------- terrain generator ----------------------------------- *)
\* PerlinNoise.OctaveNoise(octaves, persistence, scale, x, y) in hundredths,
\* scale = sn / sd.  Every octave samples Noise2D at (x*scale*2^i,
\* y*scale*2^i); when x*scale and y*scale are integers all samples are at
\* lattice points and the sum is 0.  Elsewhere the value is the field's
\* value v for this signal.
OctaveNoise(sn, sd, x, y, v) ==
    IF (x * sn) % sd = 0 /\ (y * sn) % sd = 0 THEN 0 ELSE v

getHeight(tg, x) ==
    LET at == nearSpawn(tg, x)
        baseHeight == OctaveNoise(1, 100, x, 0, at.base) * 20
        detail == OctaveNoise(5, 100, x, 100, at.detail) * 5
        val == OctaveNoise(5, 1000, x, 200, at.mountain)
        mountains == IF val > 60 THEN val * 20 ELSE 0
    IN Trunc(baseHeight + detail + mountains, 100) - 5

\* the bands with the value 0 counted to the lower band
getTerrainTypeInclusive(tg, x) ==
    LET continental ==
            OctaveNoise(5, 1000, x, 300, nearSpawn(tg, x).continental)
    IN IF continental < -40 THEN TerrainTypeDesert
       ELSE IF continental < -20 THEN TerrainTypeSavanna
       ELSE IF continental <= 0 THEN TerrainTypePlains
       ELSE IF continental < 20 THEN TerrainTypeForest
       ELSE IF continental < 40 THEN TerrainTypeHills
       ELSE IF continental < 60 THEN TerrainTypeMountains
       ELSE TerrainTypeSnowyPlains

getTerrainType(tg, x) ==
    LET continental ==
            OctaveNoise(5, 1000, x, 300, nearSpawn(tg, x).continental)
    IN IF continental < -40 THEN TerrainTypeDesert
       ELSE IF continental < -20 THEN TerrainTypeSavanna
       ELSE IF continental < 0 THEN TerrainTypePlains
       ELSE IF continental < 20 THEN TerrainTypeForest
       ELSE IF continental < 40 THEN TerrainTypeHills
       ELSE IF continental < 60 THEN TerrainTypeMountains
       ELSE TerrainTypeSnowyPlains

getBlockType(tg, x, y, height, terrainType) ==
    LET depth == height - y
    IN IF terrainType = TerrainTypeDesert
       THEN (IF depth < 3 THEN ItemTypeSand ELSE ItemTypeStone)
       ELSE IF terrainType = TerrainTypeSavanna
       THEN (IF depth = 0 THEN ItemTypeGrass
             ELSE IF depth < 4 THEN ItemTypeDirt ELSE ItemTypeStone)
       ELSE IF terrainType = TerrainTypeHills
       THEN (IF depth = 0 THEN ItemTypeGrass
             ELSE IF depth < 5 THEN ItemTypeDirt ELSE ItemTypeStone)
       ELSE IF terrainType = TerrainTypeMountains
       THEN (IF depth = 0 /\ y > 5 THEN ItemTypeSnow ELSE ItemTypeStone)
       ELSE IF terrainType = TerrainTypeSnowyPlains
       THEN (IF depth = 0 THEN ItemTypeSnow
             ELSE IF depth < 3 THEN ItemTypeDirt ELSE ItemTypeStone)
       ELSE (IF depth = 0 THEN ItemTypeGrass
             ELSE IF depth < 3 THEN ItemTypeDirt ELSE ItemTypeStone)

hasCave(tg, x, y) ==
    OctaveNoise(1, 10, x, y + 1000, tg.cave) > 70 /\ y > -5

hasTree(tg, x, height, terrainType) ==
    LET treeNoise == OctaveNoise(5, 100, x, 2000, tg.tree)
    IN IF terrainType = TerrainTypeForest THEN treeNoise > 60 /\ height >= 0
       ELSE IF terrainType = TerrainTypeJungle THEN treeNoise > 50 /\ height >= 0
       ELSE IF terrainType = TerrainTypeTaiga THEN treeNoise > 55 /\ height >= -2
       ELSE FALSE

getTreeHeight(tg, x, terrainType) ==
    LET treeNoise == OctaveNoise(1, 10, x, 3000, tg.treeHeight)
    IN IF terrainType = TerrainTypeForest THEN 4 + Trunc(treeNoise * 4, 100)
       ELSE IF terrainType = TerrainTypeJungle THEN 6 + Trunc(treeNoise * 6, 100)
       ELSE IF terrainType = TerrainTypeTaiga THEN 5 + Trunc(treeNoise * 3, 100)
       ELSE 3 + Trunc(treeNoise * 3, 100)

(* ---------------- chunk generation ------------------------------------ *)
\* the terrain fill that stops one cell short of height - maxDepth
terrainColumnShort(tg, worldX, height, terrainType) ==
    LET maxDepth == IF terrainType = TerrainTypeMountains THEN 8
                    ELSE IF terrainType = TerrainTypeHills THEN 6
                    ELSE IF terrainType = TerrainTypeDesert THEN 4
                    ELSE 5
        cells == [k \in 1..maxDepth |->
                    Block(worldX * BlockSize, (height - (k - 1)) * BlockSize,
                          BlockSize, BlockSize,
                          getBlockType(tg, worldX, height - (k - 1), height,
                                       terrainType))]
    IN SelectSeq(cells, LAMBDA b : ~hasCave(tg, worldX, b.Y \div BlockSize))

\* the terrain fill of one column: y from height down to height - maxDepth,
\* cave cells skipped
terrainColumn(tg, worldX, height, terrainType) ==
    LET maxDepth == IF terrainType = TerrainTypeMountains THEN 8
                    ELSE IF terrainType = TerrainTypeHills THEN 6
                    ELSE IF terrainType = TerrainTypeDesert THEN 4
                    ELSE 5
        cells == [k \in 1..(maxDepth + 1) |->
                    Block(worldX * BlockSize, (height - (k - 1)) * BlockSize,
                          BlockSize, BlockSize,
                          getBlockType(tg, worldX, height - (k - 1), height,
                                       terrainType))]
    IN SelectSeq(cells, LAMBDA b : ~hasCave(tg, worldX, b.Y \div BlockSize))

\* trunk and canopy of the tree of one column
treeBlocks(tg, worldX, height, terrainType) ==
    LET blockX == worldX * BlockSize
        treeHeight == getTreeHeight(tg, worldX, terrainType)
        trunk == [i \in 1..treeHeight |->
                    Block(blockX, (height + i) * BlockSize, BlockSize,
                          BlockSize, ItemTypeWood)]
        cap == Block(blockX - BlockSize, (height + treeHeight + 1) * BlockSize,
                     BlockSize * 3, BlockSize, ItemTypeGrass)
        cap2 == Block(blockX - BlockSize, (height + treeHeight - 2) * BlockSize,
                      BlockSize * 3, BlockSize, ItemTypeGrass)
        taiga == [k \in 1..3 |->
                    Block(blockX - ((2 - (k - 1)) * BlockSize) \div 2,
                          (height + treeHeight - 1 + (k - 1)) * BlockSize,
                          BlockSize * (3 - (k - 1)), BlockSize, ItemTypeGrass)]
    IN IF terrainType \in {TerrainTypeForest, TerrainTypeJungle}
       THEN trunk \o <<cap>> \o
            (IF terrainType = TerrainTypeJungle /\ treeHeight > 6
             THEN <<cap2>> ELSE <<>>)
       ELSE IF terrainType = TerrainTypeTaiga THEN trunk \o taiga
       ELSE trunk

\* cactus stack (desert) or water cell (swamp) of one column
decorationBlocks(tg, worldX, height, terrainType, isNearPlayerSpawn) ==
    LET blockX == worldX * BlockSize
        cactusNoise == OctaveNoise(1, 10, worldX, 4000, tg.cactus)
        cactusHeight == 1 + Trunc(cactusNoise * 3, 100)
        waterNoise == OctaveNoise(1, 10, worldX, 5000, tg.water)
    IN IF terrainType = TerrainTypeDesert
       THEN (IF cactusNoise > 70 /\ height >= 0
                /\ ~(isNearPlayerSpawn /\ Abs(blockX) <= 3 * BlockSize)
             THEN [i \in 1..cactusHeight |->
                     Block(blockX, (height + i) * BlockSize, BlockSize,
                           BlockSize, ItemTypeSand)]
             ELSE <<>>)
       ELSE IF terrainType = TerrainTypeSwamp
       THEN (IF waterNoise > 60 /\ height >= -1
             THEN <<Block(blockX, height * BlockSize, BlockSize, BlockSize,
                          ItemTypeWater)>>
             ELSE <<>>)
       ELSE <<>>

\* the column loop keeping every column of a chunk near the player clear,
\* whatever its distance from the spawn
columnBlocksNoRadius(tg, worldX, isNearPlayerSpawn) ==
    LET height == getHeight(tg, worldX)
        terrainType == getTerrainType(tg, worldX)
        blockY == height * BlockSize
        playerTop == -40 * Unit
        playerBottom == -40 * Unit + PlayerSize
        keepClear == /\ isNearPlayerSpawn
                     /\ blockY < playerBottom
                     /\ blockY + BlockSize > playerTop
    IN IF keepClear THEN <<>>
       ELSE terrainColumn(tg, worldX, height, terrainType)
            \o (IF hasTree(tg, worldX, height, terrainType)
                THEN treeBlocks(tg, worldX, height, terrainType) ELSE <<>>)
            \o decorationBlocks(tg, worldX, height, terrainType, isNearPlayerSpawn)

\* one iteration of the column loop of generateChunk
columnBlocks(tg, worldX, isNearPlayerSpawn) ==
    LET height == getHeight(tg, worldX)
        terrainType == getTerrainType(tg, worldX)
        blockX == worldX * BlockSize
        playerSpawnY == -40 * Unit
        spawnRadius == 3 * BlockSize
        blockY == height * BlockSize
        playerTop == playerSpawnY
        playerBottom == playerSpawnY + PlayerSize
        keepClear == /\ isNearPlayerSpawn
                     /\ Abs(blockX) <= spawnRadius
                     /\ blockY < playerBottom
                     /\ blockY + BlockSize > playerTop
    IN IF keepClear THEN <<>>
       ELSE terrainColumn(tg, worldX, height, terrainType)
            \o (IF hasTree(tg, worldX, height, terrainType)
                   /\ ~(isNearPlayerSpawn /\ Abs(blockX) <= 3 * BlockSize)
                THEN treeBlocks(tg, worldX, height, terrainType) ELSE <<>>)
            \o decorationBlocks(tg, worldX, height, terrainType, isNearPlayerSpawn)

\* the columns lo..hi of the chunk, in the order of the loop over x (the
\* range is halved instead of peeled, the order of the blocks is the same)
RECURSIVE chunkColumns(_, _, _, _, _)
chunkColumns(tg, chunkX, lo, hi, isNearPlayerSpawn) ==
    IF lo > hi THEN <<>>
    ELSE IF lo = hi
    THEN columnBlocks(tg, chunkX * ChunkSize + lo, isNearPlayerSpawn)
    ELSE LET mid == (lo + hi) \div 2
         IN chunkColumns(tg, chunkX, lo, mid, isNearPlayerSpawn)
            \o chunkColumns(tg, chunkX, mid + 1, hi, isNearPlayerSpawn)

\* the blocks of an in-band chunk depend on the noise field, chunkX and
\* isNearPlayerSpawn only; chunkTable is the column loop of generateChunk
\* tabulated over the chunk columns the bounded runs can reach (merging with
\* the empty function makes TLC compute the table once)
chunkTable ==
    [t \in NoiseFields \X (-MaxChunk..MaxChunk) \X BOOLEAN |->
        chunkColumns(t[1], t[2], 0, ChunkSize - 1, t[3])] @@ <<>>

\* generateChunk without its test for the band around the player
generateChunkNoBand(gm, tg, chunkX, chunkY) ==
    LET playerChunkX == Floor(gm.playerX, ChunkWorldSize)
        isNearPlayerSpawn == /\ chunkX >= playerChunkX - 1
                             /\ chunkX <= playerChunkX + 1
                             /\ chunkY = 0
    IN [X |-> chunkX, Y |-> chunkY,
        Blocks |-> chunkTable[<<tg, chunkX, isNearPlayerSpawn>>]]

\* generateChunk with a band of 2 rows around the player
generateChunkNarrowBand(gm, tg, chunkX, chunkY) ==
    LET playerChunkX == Floor(gm.playerX, ChunkWorldSize)
        isNearPlayerSpawn == /\ chunkX >= playerChunkX - 1
                             /\ chunkX <= playerChunkX + 1
                             /\ chunkY = 0
        playerChunkY == Floor(gm.playerY, ChunkWorldSize)
    IN IF chunkY > playerChunkY + 2 \/ chunkY < playerChunkY - 2
       THEN [X |-> chunkX, Y |-> chunkY, Blocks |-> <<>>]
       ELSE [X |-> chunkX, Y |-> chunkY,
             Blocks |-> chunkTable[<<tg, chunkX, isNearPlayerSpawn>>]]

generateChunk(gm, tg, chunkX, chunkY) ==
    LET playerChunkX == Floor(gm.playerX, ChunkWorldSize)
        isNearPlayerSpawn == /\ chunkX >= playerChunkX - 1
                             /\ chunkX <= playerChunkX + 1
                             /\ chunkY = 0
        playerChunkY == Floor(gm.playerY, ChunkWorldSize)
    IN IF chunkY > playerChunkY + 3 \/ chunkY < playerChunkY - 3
       THEN [X |-> chunkX, Y |-> chunkY, Blocks |-> <<>>]
       ELSE [X |-> chunkX, Y |-> chunkY,
             Blocks |-> chunkTable[<<tg, chunkX, isNearPlayerSpawn>>]]

\* loadChunk without its test for a stored chunk
loadChunkAlways(gm, tg, chunkX, chunkY) ==
    LET key == chunkKey(chunkX, chunkY)
        chunk == generateChunk(gm, tg, chunkX, chunkY)
    IN [gm EXCEPT !.chunks = [k \in DOMAIN @ \ {key} |-> @[k]] @@ (key :> chunk),
                  !.blocks = @ \o chunk.Blocks,
                  !.generateCalls =
                      IF key \in DOMAIN @
                      THEN [@ EXCEPT ![key] = @ + 1]
                      ELSE @ @@ (key :> 1)]

\* generateCalls counts the calls of generateChunk per key (instrumentation)
loadChunk(gm, tg, chunkX, chunkY) ==
    LET key == chunkKey(chunkX, chunkY)
    IN IF key \in DOMAIN gm.chunks THEN gm
       ELSE LET chunk == generateChunk(gm, tg, chunkX, chunkY)
            IN [gm EXCEPT !.chunks = @ @@ (key :> chunk),
                          !.blocks = @ \o chunk.Blocks,
                          !.generateCalls =
                              IF key \in DOMAIN @
                              THEN [@ EXCEPT ![key] = @ + 1]
                              ELSE @ @@ (key :> 1)]

visibleDistance == 3

\* the nested loops of updateChunks, x outer, y inner: iteration n of
\* 0 .. (2 * visibleDistance + 1)^2 - 1 loads the chunk at column n \div side,
\* row n % side of the window.  loadSpan runs the iterations lo..hi in
\* order (the range is halved instead of peeled).
RECURSIVE loadSpan(_, _, _, _, _, _)
loadSpan(gm, tg, playerChunkX, playerChunkY, lo, hi) ==
    LET side == 2 * visibleDistance + 1
    IN IF lo > hi THEN gm
       ELSE IF lo = hi
       THEN loadChunk(gm, tg, playerChunkX - visibleDistance + (lo \div side),
                      playerChunkY - visibleDistance + (lo % side))
       ELSE LET mid == (lo + hi) \div 2
                first == loadSpan(gm, tg, playerChunkX, playerChunkY, lo, mid)
            IN \* the test is always true; it makes TLC finish the first
               \* half before it starts the second
               IF ~first.chunksIsNil
               THEN loadSpan(first, tg, playerChunkX, playerChunkY, mid + 1, hi)
               ELSE first

updateChunks(gm, tg) ==
    LET playerChunkX == Floor(gm.playerX, ChunkWorldSize)
        playerChunkY == Floor(gm.playerY, ChunkWorldSize)
        side == 2 * visibleDistance + 1
    IN loadSpan(gm, tg, playerChunkX, playerChunkY, 0, side * side - 1)

(* ---------------- line of sight --------------------------------------- *)
\* hasLineOfSight(blockX, blockY, playerX, playerY): the cells sampled by the
\* loop i = 0, 1, ... < steps along the segment from the "player centre"
\* (the arguments plus PlayerSize/2) to the centre of the target cell
hasLineOfSight(gm, blockX, blockY, playerX, playerY) ==
    IF gm.gameMode = GameModeCreative THEN TRUE
    ELSE LET playerCenterX == playerX + PlayerSize \div 2
             playerCenterY == playerY + PlayerSize \div 2
             blockCenterX == blockX + BlockSize \div 2
             blockCenterY == blockY + BlockSize \div 2
             dx == blockCenterX - playerCenterX
             dy == blockCenterY - playerCenterY
             stepsU == IF Abs(dx) >= Abs(dy) THEN Abs(dx) ELSE Abs(dy)
             \* x = playerCenterX + (dx / steps) * i, floored to the grid
             checkX(i) == Floor(playerCenterX * stepsU + Unit * dx * i,
                                stepsU * BlockSize) * BlockSize
             checkY(i) == Floor(playerCenterY * stepsU + Unit * dy * i,
                                stepsU * BlockSize) * BlockSize
             cells == {<<checkX(i), checkY(i)>> :
                          i \in {j \in 0..stepsU : j * Unit < stepsU}}
         IN IF stepsU = 0 THEN TRUE
            ELSE ~\E c \in cells :
                     /\ (c[1] # blockX \/ c[2] # blockY)
                     /\ isBlockAt(gm, c[1], c[2])

(* ---------------- hotbar ---------------------------------------------- *)
hotbarItems == <<ItemTypeGrass, ItemTypeDirt, ItemTypeStone, ItemTypeSand,
                 ItemTypeWood, ItemTypeWater, ItemTypeLava, ItemTypeSnow>>

getItemTypeAtHotbarPosition(pos) ==
    IF pos >= 0 /\ pos < Len(hotbarItems) THEN hotbarItems[pos + 1]
    ELSE ItemTypeGrass

getHotbarSize == Len(hotbarItems)

updateCurrentItemType(gm) ==
    [gm EXCEPT !.currentItemType = getItemTypeAtHotbarPosition(gm.hotbarSelected)]

(* ---------------- the zero value Game{} (main) ------------------------- *)
NewGame ==
    [playerX |-> 0, playerY |-> 0, playerVelocityY |-> 0,
     playerOnGround |-> FALSE,
     blocks |-> <<>>,
     chunksIsNil |-> TRUE, chunks |-> <<>>,
     worldMinX |-> 0, worldMaxX |-> 0,
     gameMode |-> 0,
     selecting |-> FALSE,
     selectionStartX |-> 0, selectionStartY |-> 0,
     selectionEndX |-> 0, selectionEndY |-> 0,
     currentItemType |-> ItemTypeGrass, hotbarSelected |-> 0,
     generateCalls |-> <<>>]

(* ---------------- Update, phase by phase ------------------------------ *)
\* if g.chunks == nil { ... }
initGame(gm, tg) ==
    IF ~gm.chunksIsNil THEN gm
    ELSE LET spawnHeight == getHeight(tg, 0)
             py == spawnHeight * BlockSize - PlayerSize - 10 * Unit
             safeArea == 3 * BlockSize
             keep(b) == ~(/\ Abs(2 * b.X + b.W) <= 2 * safeArea
                          /\ 2 * b.Y + b.H >= 2 * (py - BlockSize)
                          /\ 2 * b.Y + b.H <= 2 * (py + PlayerSize + BlockSize))
         IN updateCurrentItemType(
              [gm EXCEPT !.chunksIsNil = FALSE, !.chunks = <<>>,
                         !.playerX = 0, !.playerY = py,
                         !.gameMode = GameModeCreative,
                         !.hotbarSelected = 0,
                         !.blocks = SelectSeq(@, keep)])

\* key M, keys 1..8, key Q and the wheel
modeAndHotbar(gm, in) ==
    LET g1 == IF in.keyM
              THEN [gm EXCEPT !.gameMode = IF @ = GameModeCreative
                                           THEN GameModeSurvival
                                           ELSE GameModeCreative]
              ELSE gm
        g2 == IF in.digit \in 1..8
              THEN updateCurrentItemType([g1 EXCEPT !.hotbarSelected = in.digit - 1])
              ELSE g1
        g3 == IF in.keyQ
              THEN updateCurrentItemType(
                     [g2 EXCEPT !.hotbarSelected = (@ + 1) % getHotbarSize])
              ELSE g2
    IN IF in.wheel > 0
       THEN updateCurrentItemType(
              [g3 EXCEPT !.hotbarSelected = (@ + 1) % getHotbarSize])
       ELSE IF in.wheel < 0
       THEN updateCurrentItemType(
              [g3 EXCEPT !.hotbarSelected =
                             (@ + getHotbarSize - 1) % getHotbarSize])
       ELSE g3

\* the two nested loops that fill the selected box, x outer, y inner
RECURSIVE fillBox(_, _, _, _, _, _)
fillBox(gm, x, y, minY, maxX, maxY) ==
    IF x > maxX THEN gm
    ELSE IF y > maxY
         THEN fillBox(gm, x + BlockSize, getBlockCoordinate(minY), minY,
                      maxX, maxY)
    ELSE LET playerCenterX == gm.playerX + PlayerSize \div 2
             playerCenterY == gm.playerY + PlayerSize \div 2
             blockX == getBlockCoordinate(x)
             blockY == getBlockCoordinate(y)
             g1 == IF hasLineOfSight(gm, blockX, blockY,
                                     playerCenterX, playerCenterY)
                   THEN addBlock(gm, blockX, blockY) ELSE gm
         IN fillBox(g1, x, y + BlockSize, minY, maxX, maxY)

\* middle mouse button: start, extend or finish a box selection
boxSelection(gm, in) ==
    IF in.middle = "justPressed"
    THEN [gm EXCEPT !.selecting = TRUE,
                    !.selectionStartX = in.mouseX, !.selectionStartY = in.mouseY,
                    !.selectionEndX = in.mouseX, !.selectionEndY = in.mouseY]
    ELSE IF gm.selecting /\ in.middle = "pressed"
    THEN [gm EXCEPT !.selectionEndX = in.mouseX, !.selectionEndY = in.mouseY]
    ELSE IF in.middle = "justReleased" /\ gm.selecting
    THEN LET minX == IF gm.selectionStartX <= gm.selectionEndX
                     THEN gm.selectionStartX ELSE gm.selectionEndX
             maxX == IF gm.selectionStartX <= gm.selectionEndX
                     THEN gm.selectionEndX ELSE gm.selectionStartX
             minY == IF gm.selectionStartY <= gm.selectionEndY
                     THEN gm.selectionStartY ELSE gm.selectionEndY
             maxY == IF gm.selectionStartY <= gm.selectionEndY
                     THEN gm.selectionEndY ELSE gm.selectionStartY
         IN fillBox([gm EXCEPT !.selecting = FALSE],
                    getBlockCoordinate(minX), getBlockCoordinate(minY),
                    minY, maxX, maxY)
    ELSE gm

\* left button removes, right button places
breakOrPlace(gm, in) ==
    LET blockX == getBlockCoordinate(in.mouseX)
        blockY == getBlockCoordinate(in.mouseY)
        playerCenterX == gm.playerX + PlayerSize \div 2
        playerCenterY == gm.playerY + PlayerSize \div 2
    IN IF in.mouseLeft THEN removeBlock(gm, blockX, blockY)
       ELSE IF in.mouseRight
       THEN (IF hasLineOfSight(gm, blockX, blockY, playerCenterX, playerCenterY)
             THEN addBlock(gm, blockX, blockY) ELSE gm)
       ELSE gm

playerRect(x, y) == Block(x, y, PlayerSize, PlayerSize, 0)

\* horizontal resolution without the branch for a block on the left
horizontalNoRightEdge(gm, in) ==
    LET oldX == gm.playerX
        x1 == oldX - (IF in.left THEN PlayerSpeed ELSE 0)
                   + (IF in.right THEN PlayerSpeed ELSE 0)
        rect == playerRect(x1, gm.playerY)
        hits == SelectSeq(gm.blocks,
                          LAMBDA b : /\ checkCollision(rect, b)
                                     /\ oldX <= b.X - PlayerSize)
    IN [gm EXCEPT !.playerX = IF hits = <<>> THEN x1
                              ELSE hits[Len(hits)].X - PlayerSize]

\* 1, 1.5: horizontal move and resolution.  The loop tests every block
\* against the moved rectangle and the pre-move x, so the last block that
\* takes a branch decides.
horizontalPhase(gm, in) ==
    LET oldX == gm.playerX
        x1 == oldX - (IF in.left THEN PlayerSpeed ELSE 0)
                   + (IF in.right THEN PlayerSpeed ELSE 0)
        rect == playerRect(x1, gm.playerY)
        \* the blocks, in loop order, that take one of the two branches
        hits == SelectSeq(gm.blocks,
                          LAMBDA b : /\ checkCollision(rect, b)
                                     /\ \/ oldX <= b.X - PlayerSize
                                        \/ oldX >= b.X + b.W)
        x2 == IF hits = <<>> THEN x1
              ELSE LET b == hits[Len(hits)]
                   IN IF oldX <= b.X - PlayerSize THEN b.X - PlayerSize
                      ELSE b.X + b.W
        x3 == IF gm.worldMinX # 0 /\ gm.worldMaxX # 0
              THEN (IF x2 < gm.worldMinX THEN gm.worldMinX
                    ELSE IF x2 > gm.worldMaxX - PlayerSize
                    THEN gm.worldMaxX - PlayerSize ELSE x2)
              ELSE x2
    IN [gm EXCEPT !.playerX = x3]

\* jump and gravity with a jump allowed in the air
jumpInTheAir(gm, in) ==
    LET g1 == IF in.jump
              THEN [gm EXCEPT !.playerVelocityY = -JumpPower,
                              !.playerOnGround = FALSE]
              ELSE gm
        v == g1.playerVelocityY + Gravity
    IN [g1 EXCEPT !.playerVelocityY = IF v > PlayerMaxFall THEN PlayerMaxFall
                                      ELSE v]

\* jump and gravity without the limit on the fall speed
gravityUnclamped(gm, in) ==
    LET g1 == IF in.jump /\ gm.playerOnGround
              THEN [gm EXCEPT !.playerVelocityY = -JumpPower,
                              !.playerOnGround = FALSE]
              ELSE gm
    IN [g1 EXCEPT !.playerVelocityY = @ + Gravity]

\* 2, 3: jump and gravity
jumpAndGravity(gm, in) ==
    LET g1 == IF in.jump /\ gm.playerOnGround
              THEN [gm EXCEPT !.playerVelocityY = -JumpPower,
                              !.playerOnGround = FALSE]
              ELSE gm
        v == g1.playerVelocityY + Gravity
    IN [g1 EXCEPT !.playerVelocityY = IF v > PlayerMaxFall THEN PlayerMaxFall
                                      ELSE v]

\* vertical resolution that lands only on a block strictly below the old
\* position
verticalStrictLanding(gm) ==
    LET oldY == gm.playerY
        v == gm.playerVelocityY
        y1 == oldY + v
        rect == playerRect(gm.playerX, y1)
        hits == SelectSeq(gm.blocks,
                          LAMBDA b : /\ checkCollision(rect, b)
                                     /\ \/ v > 0 /\ oldY < b.Y - PlayerSize
                                        \/ v < 0 /\ oldY >= b.Y + b.H)
    IN IF hits = <<>>
       THEN [gm EXCEPT !.playerY = y1, !.playerOnGround = FALSE]
       ELSE LET b == hits[1]
            IN IF v > 0
               THEN [gm EXCEPT !.playerY = b.Y - PlayerSize,
                               !.playerVelocityY = 0,
                               !.playerOnGround = TRUE]
               ELSE [gm EXCEPT !.playerY = b.Y + b.H,
                               !.playerVelocityY = 0,
                               !.playerOnGround = FALSE]

\* vertical resolution without the branch of the rising player
verticalNoCeiling(gm) ==
    LET oldY == gm.playerY
        v == gm.playerVelocityY
        y1 == oldY + v
        rect == playerRect(gm.playerX, y1)
        hits == SelectSeq(gm.blocks,
                          LAMBDA b : /\ checkCollision(rect, b)
                                     /\ v > 0 /\ oldY <= b.Y - PlayerSize)
    IN IF hits = <<>>
       THEN [gm EXCEPT !.playerY = y1, !.playerOnGround = FALSE]
       ELSE [gm EXCEPT !.playerY = hits[1].Y - PlayerSize,
                       !.playerVelocityY = 0,
                       !.playerOnGround = TRUE]

\* vertical resolution that does not reset playerOnGround first
verticalStickyGround(gm) ==
    LET oldY == gm.playerY
        v == gm.playerVelocityY
        y1 == oldY + v
        rect == playerRect(gm.playerX, y1)
        hits == SelectSeq(gm.blocks,
                          LAMBDA b : /\ checkCollision(rect, b)
                                     /\ \/ v > 0 /\ oldY <= b.Y - PlayerSize
                                        \/ v < 0 /\ oldY >= b.Y + b.H)
    IN IF hits = <<>>
       THEN [gm EXCEPT !.playerY = y1]
       ELSE LET b == hits[1]
            IN IF v > 0
               THEN [gm EXCEPT !.playerY = b.Y - PlayerSize,
                               !.playerVelocityY = 0,
                               !.playerOnGround = TRUE]
               ELSE [gm EXCEPT !.playerY = b.Y + b.H,
                               !.playerVelocityY = 0]

\* 4, 5: vertical move and resolution.  A branch zeroes the velocity, after
\* which no later block can take a branch: the first block decides.
verticalPhase(gm) ==
    LET oldY == gm.playerY
        v == gm.playerVelocityY
        y1 == oldY + v
        rect == playerRect(gm.playerX, y1)
        \* the blocks, in loop order, that would take a branch at velocity v
        hits == SelectSeq(gm.blocks,
                          LAMBDA b : /\ checkCollision(rect, b)
                                     /\ \/ v > 0 /\ oldY <= b.Y - PlayerSize
                                        \/ v < 0 /\ oldY >= b.Y + b.H)
    IN IF hits = <<>>
       THEN [gm EXCEPT !.playerY = y1, !.playerOnGround = FALSE]
       ELSE LET b == hits[1]
            IN IF v > 0
               THEN [gm EXCEPT !.playerY = b.Y - PlayerSize,
                               !.playerVelocityY = 0,
                               !.playerOnGround = TRUE]
               ELSE [gm EXCEPT !.playerY = b.Y + b.H,
                               !.playerVelocityY = 0,
                               !.playerOnGround = FALSE]

(* ---------------- Game.Update ----------------------------------------- *)
\* what ebiten reports during one call of Update
NoInput ==
    [keyM |-> FALSE, digit |-> 0, keyQ |-> FALSE, wheel |-> 0,
     mouseX |-> 0, mouseY |-> 0, middle |-> "up",
     mouseLeft |-> FALSE, mouseRight |-> FALSE,
     left |-> FALSE, right |-> FALSE, jump |-> FALSE]

\* last records, for the step just taken, the input and what the handler
\* saw between its phases
\* The frame is followed phase by phase; each operator below takes the game
\* as the phases before it left it and hands it to the next phase.
\* g2: after updateChunks; g4: after breaking or placing; g5: after the
\* horizontal phase; g6: after the jump and gravity.
UpdatePhysicsEnd(in, g2, g4, g5, g6) ==
    /\ g' = verticalPhase(g6)
    /\ last' = [op |-> "Update", in |-> in,
                px |-> g2.playerX, py |-> g2.playerY,
                newKeys |-> (DOMAIN g2.chunks) \ (DOMAIN g.chunks),
                afterChunks |-> Len(g2.blocks),
                afterEdit |-> Len(g4.blocks),
                wasOnGround |-> g5.playerOnGround,
                oldX |-> g4.playerX, oldY |-> g6.playerY,
                velocityBefore |-> g5.playerVelocityY,
                velocity |-> g6.playerVelocityY]

UpdateGravity(in, g2, g4, g5) ==
    UpdatePhysicsEnd(in, g2, g4, g5, jumpAndGravity(g5, in))

UpdateHorizontal(in, g2, g4) ==
    UpdateGravity(in, g2, g4, horizontalPhase(g4, in))

\* the frame with the physics run before the blocks are broken or placed
UpdateEditLate(in, g2) ==
    LET g5 == horizontalPhase(g2, in)
        g6 == jumpAndGravity(g5, in)
        g7 == breakOrPlace(boxSelection(verticalPhase(g6), in), in)
    IN /\ g' = g7
       /\ last' = [op |-> "Update", in |-> in,
                   px |-> g2.playerX, py |-> g2.playerY,
                   newKeys |-> (DOMAIN g2.chunks) \ (DOMAIN g.chunks),
                   afterChunks |-> Len(g2.blocks),
                   afterEdit |-> Len(g7.blocks),
                   wasOnGround |-> g5.playerOnGround,
                   oldX |-> g2.playerX, oldY |-> g6.playerY,
                   velocityBefore |-> g5.playerVelocityY,
                   velocity |-> g6.playerVelocityY]

UpdateEdit(in, g2) ==
    UpdateHorizontal(in, g2, breakOrPlace(boxSelection(g2, in), in))

Update(in) ==
    /\ UpdateEdit(in, updateChunks(modeAndHotbar(initGame(g, noise), in), noise))
    /\ steps' = steps + 1
    /\ UNCHANGED noise

(* ---------------- Spec: every kind of input, a few frames -------------- *)
\* mouse positions (world coordinates) offered to the handler: inside the
\* cell the spawned player stands in and inside the free cell on top of the
\* spawn column
MousePoints ==
    {<<25 * Unit, -275 * Unit>>, <<25 * Unit, -525 * Unit>>}

\* the states <<left, right, jump>> of the movement keys offered
KeyInputs ==
    {<<FALSE, FALSE, FALSE>>, <<TRUE, FALSE, FALSE>>, <<FALSE, TRUE, FALSE>>,
     <<FALSE, FALSE, TRUE>>, <<TRUE, TRUE, TRUE>>}

UpdateKeys ==
    /\ steps < MaxSteps
    /\ \E k \in KeyInputs :
          Update([NoInput EXCEPT !.left = k[1], !.right = k[2], !.jump = k[3]])

UpdateBreak ==
    /\ steps < MaxSteps
    /\ \E p \in MousePoints :
          Update([NoInput EXCEPT !.mouseLeft = TRUE,
                                 !.mouseX = p[1], !.mouseY = p[2]])

UpdatePlace ==
    /\ steps < MaxSteps
    /\ \E p \in MousePoints :
          Update([NoInput EXCEPT !.mouseRight = TRUE,
                                 !.mouseX = p[1], !.mouseY = p[2]])

UpdateMode ==
    /\ steps < MaxSteps
    /\ Update([NoInput EXCEPT !.keyM = TRUE])

UpdateHotbar ==
    /\ steps < MaxSteps
    /\ \/ Update([NoInput EXCEPT !.keyQ = TRUE])
       \/ Update([NoInput EXCEPT !.digit = 3])
       \/ Update([NoInput EXCEPT !.wheel = -1])

UpdateSelect ==
    /\ steps < MaxSteps
    /\ \E m \in {"justPressed", "pressed", "justReleased"} :
          Update([NoInput EXCEPT !.middle = m,
                                 !.mouseX = 25 * Unit, !.mouseY = -525 * Unit])

Init ==
    /\ g = NewGame
    /\ noise \in SpawnFields
    /\ last = [op |-> "new"]
    /\ steps = 0

Next ==
    \/ UpdateKeys
    \/ UpdateBreak
    \/ UpdatePlace
    \/ UpdateMode
    \/ UpdateHotbar
    \/ UpdateSelect

Spec == Init /\ [][Next]_vars

(* ---------------- SpecDig: dig out the spawn column and fall ----------- *)
\* the cell that carries the spawned player: the surface block of column 0
DigX == 0
DigY == getHeight(noise, 0) * BlockSize

\* the player clicks on the cell for as long as a block is there, after at
\* most MaxSteps idle frames, and then lets go
DigIdle ==
    /\ steps < MaxDigSteps
    /\ steps <= MaxSteps \/ ~isBlockAt(g, DigX, DigY)
    /\ Update(NoInput)

DigBreak ==
    /\ steps < MaxDigSteps
    /\ isBlockAt(g, DigX, DigY)
    /\ Update([NoInput EXCEPT !.mouseLeft = TRUE,
                              !.mouseX = DigX + BlockSize \div 2,
                              !.mouseY = DigY + BlockSize \div 2])

NextDig == DigIdle \/ DigBreak

SpecDig == Init /\ [][NextDig]_vars

(* ---------------- SpecKeys: movement keys only, past the landing ------- *)
KeysOnly ==
    /\ steps < MaxKeySteps
    /\ \E k \in KeyInputs :
          Update([NoInput EXCEPT !.left = k[1], !.right = k[2], !.jump = k[3]])

NextKeys == KeysOnly

SpecKeys == Init /\ [][NextKeys]_vars

(* ---------------- SpecEdit: addBlock and removeBlock on small worlds --- *)
\* cells, in blocks: around the origin, on and off the row y = 0, at
\* distance 250 from the first player's centre and beyond it
EditCells == {<<0, 0>>, <<1, 0>>, <<1, -1>>, <<5, -1>>, <<6, -1>>, <<7, 0>>}

\* player positions: standing on the cell (0, 0), and aside of it
EditPlayers == {<<0, -50 * Unit>>, <<-60 * Unit, -50 * Unit>>}

\* the lists of at most MaxBlocks blocks on different cells of EditCells
EditLists ==
    LET seqs == UNION {[1..n -> EditCells] : n \in 0..MaxBlocks}
        distinct(cs) == \A i \in 1..Len(cs), j \in 1..Len(cs) :
                            i # j => cs[i] # cs[j]
    IN {[i \in 1..Len(cs) |->
            Block(cs[i][1] * BlockSize, cs[i][2] * BlockSize,
                  BlockSize, BlockSize, ItemTypeStone)] :
        cs \in {c \in seqs : distinct(c)}}

InitEdit ==
    /\ \E m \in {GameModeCreative, GameModeSurvival}, p \in EditPlayers,
          bl \in EditLists, h \in {0, 2} :
          g = updateCurrentItemType(
                [NewGame EXCEPT !.chunksIsNil = FALSE, !.gameMode = m,
                                !.playerX = p[1], !.playerY = p[2],
                                !.blocks = bl, !.hotbarSelected = h])
    /\ noise = FlatField
    /\ last = [op |-> "new"]
    /\ steps = 0

AddBlockCall ==
    /\ steps < MaxEditSteps
    /\ \E c \in EditCells :
          /\ g' = addBlock(g, c[1] * BlockSize, c[2] * BlockSize)
          /\ last' = [op |-> "addBlock", x |-> c[1] * BlockSize,
                      y |-> c[2] * BlockSize, before |-> g,
                      previous |-> IF last.op = "new" THEN <<>>
                                   ELSE <<last.op, last.x, last.y>>]
    /\ steps' = steps + 1
    /\ UNCHANGED noise

RemoveBlockCall ==
    /\ steps < MaxEditSteps
    /\ \E c \in EditCells :
          /\ g' = removeBlock(g, c[1] * BlockSize, c[2] * BlockSize)
          /\ last' = [op |-> "removeBlock", x |-> c[1] * BlockSize,
                      y |-> c[2] * BlockSize, before |-> g,
                      previous |-> IF last.op = "new" THEN <<>>
                                   ELSE <<last.op, last.x, last.y>>]
    /\ steps' = steps + 1
    /\ UNCHANGED noise

NextEdit == AddBlockCall \/ RemoveBlockCall

SpecEdit == InitEdit /\ [][NextEdit]_vars

(***************************************************************************)
(* The order of the phases of a frame: a first frame with keys or a click  *)
(* on the ground of the spawn, then a player who digs that cell, falls,    *)
(* and puts a block into the way of the fall.                              *)
(***************************************************************************)
\* the cell under the dug one, where a falling player can put a block
CatchY == DigY + BlockSize

OrderFirst ==
    /\ steps = 0
    /\ \/ \E k \in KeyInputs :
             Update([NoInput EXCEPT !.left = k[1], !.right = k[2],
                                    !.jump = k[3]])
       \/ Update([NoInput EXCEPT !.mouseLeft = TRUE,
                                 !.mouseX = DigX + BlockSize \div 2,
                                 !.mouseY = DigY + BlockSize \div 2])

OrderPlace ==
    /\ steps > 0 /\ steps < MaxDigSteps
    /\ ~isBlockAt(g, DigX, DigY)
    /\ ~isBlockAt(g, DigX, CatchY)
    /\ g.playerY + PlayerSize <= CatchY
    /\ g.playerY + PlayerSize + PlayerMaxFall > CatchY
    /\ Update([NoInput EXCEPT !.mouseRight = TRUE,
                              !.mouseX = DigX + BlockSize \div 2,
                              !.mouseY = CatchY + BlockSize \div 2])

NextOrder == OrderFirst \/ DigIdle \/ DigBreak \/ OrderPlace

SpecOrder == Init /\ [][NextOrder]_vars

(***************************************************************************)
(* checkCollision on its own, called on pairs of small rectangles.         *)
(***************************************************************************)
MaxCoord == 2
MaxSide == 2

Rects ==
    { Block(x, y, w, h, 0) : x \in -1..MaxCoord, y \in -1..MaxCoord,
                             w \in 1..MaxSide, h \in 1..MaxSide }

InitRect ==
    /\ g = NewGame
    /\ noise = FlatField
    /\ last = [op |-> "none"]
    /\ steps = 0

CheckCollisionCall ==
    /\ steps = 0
    /\ \E a \in Rects, b \in Rects :
          last' = [op |-> "checkCollision", a |-> a, b |-> b,
                   result |-> checkCollision(a, b)]
    /\ steps' = steps + 1
    /\ UNCHANGED <<g, noise>>

NextRect == CheckCollisionCall

SpecRect == InitRect /\ [][NextRect]_vars

(***************************************************************************)
(* getTerrainType on its own, for every value of the continental signal.   *)
(***************************************************************************)
\* the signal in hundredths: -1.00 .. 1.00
MaxSignal == 100

\* columns away from the spawn, and one next to it
TerrainColumns == {-7, 2, 5, 12}

InitTerrain ==
    /\ g = NewGame
    /\ \E c \in -MaxSignal..MaxSignal :
          noise = [FlatField EXCEPT !.continental = c]
    /\ last = [op |-> "none"]
    /\ steps = 0

GetTerrainTypeCall ==
    /\ steps = 0
    /\ \E x \in TerrainColumns :
          last' = [op |-> "getTerrainType", x |-> x,
                   terrainType |-> getTerrainType(noise, x)]
    /\ steps' = steps + 1
    /\ UNCHANGED <<g, noise>>

NextTerrain == GetTerrainTypeCall

SpecTerrain == InitTerrain /\ [][NextTerrain]_vars

(***************************************************************************)
(* Chunk generation on its own: loadChunk called for chunks inside and     *)
(* outside the band of the player, for players in different chunks.        *)
(***************************************************************************)
MaxGenSteps == 2

GenPlayers ==
    { <<0, -310 * Unit>>, <<1200 * Unit, 10 * Unit>>,
      <<-600 * Unit, -500 * Unit>>, <<0, 1800 * Unit>> }

GenChunkXs == {-1, 0, 1}
GenChunkYs == {-5, -4, 0, 3, 4, 7}

InitGen ==
    /\ noise \in GenFields
    /\ \E p \in GenPlayers :
          g = [NewGame EXCEPT !.chunksIsNil = FALSE,
                              !.playerX = p[1], !.playerY = p[2]]
    /\ last = [op |-> "none"]
    /\ steps = 0

LoadChunkCall ==
    /\ steps < MaxGenSteps
    /\ \E chunkX \in GenChunkXs, chunkY \in GenChunkYs :
          /\ g' = loadChunk(g, noise, chunkX, chunkY)
          /\ last' = [op |-> "loadChunk", chunkX |-> chunkX, chunkY |-> chunkY,
                      wasStored |-> chunkKey(chunkX, chunkY) \in DOMAIN g.chunks]
    /\ steps' = steps + 1
    /\ UNCHANGED noise

NextGen == LoadChunkCall

SpecGen == InitGen /\ [][NextGen]_vars

(* ---------------- properties of the running game ----------------------- *)
\* the blocks of gm.blocks that the rectangle of a player at (x, y) overlaps
overlapping(blocks, x, y) ==
    SelectSeq(blocks, LAMBDA b : checkCollision(playerRect(x, y), b))

\* the cells of a list of blocks
cellsOf(blocks) == {<<blocks[i].X, blocks[i].Y>> : i \in 1..Len(blocks)}

\* C1: after any single Update step the player's rectangle at
\* (playerX, playerY) overlaps no block of g.blocks (strict checkCollision
\* test), for every input and every reachable block list.
C1_NoOverlapAfterUpdate ==
    steps >= 1 => overlapping(g.blocks, g.playerX, g.playerY) = <<>>

\* C2: in every reachable state g.blocks holds at most one block at any
\* given (X, Y).
C2_OneBlockPerCell ==
    Cardinality(cellsOf(g.blocks)) = Len(g.blocks)

\* C4: after the first Update step's initialisation and its updateChunks
\* call, the player's rectangle overlaps no block. The frame is one without
\* a block edit, so g.blocks is the list updateChunks left.
C4_SpawnNotEmbedded ==
    (steps = 1 /\ ~last.in.mouseLeft /\ ~last.in.mouseRight
               /\ last.in.middle = "up")
        => /\ Len(g.blocks) = last.afterChunks
           /\ overlapping(g.blocks, last.px, last.py) = <<>>

\* the chunk coordinate of a world coordinate p, from its definition:
\* the k with k * ChunkWorldSize <= p < (k + 1) * ChunkWorldSize
chunkOf(p) ==
    CHOOSE k \in -(MaxChunk + 8)..(MaxChunk + 8) :
        k * ChunkWorldSize <= p /\ p < (k + 1) * ChunkWorldSize

\* the chunk coordinates loadChunk is tried on
LoadWindow == -MaxChunk..MaxChunk

\* C5: generateChunk is invoked at most once per chunk key: loadChunk on a
\* key present in g.chunks changes neither g.chunks nor g.blocks, and on an
\* absent key it stores the generated chunk and appends exactly that
\* chunk's blocks to g.blocks.
C5_GenerateOncePerKey ==
    /\ DOMAIN g.generateCalls = DOMAIN g.chunks
    /\ \A key \in DOMAIN g.generateCalls : g.generateCalls[key] = 1
    /\ ~g.chunksIsNil =>
         \A cx \in LoadWindow, cy \in LoadWindow :
            LET key == chunkKey(cx, cy)
                after == loadChunk(g, noise, cx, cy)
            IN IF key \in DOMAIN g.chunks
               THEN after.chunks = g.chunks /\ after.blocks = g.blocks
               ELSE LET chunk == generateChunk(g, noise, cx, cy)
                    IN /\ DOMAIN after.chunks = DOMAIN g.chunks \cup {key}
                       /\ after.chunks[key] = chunk
                       /\ \A k \in DOMAIN g.chunks :
                             after.chunks[k] = g.chunks[k]
                       /\ after.blocks = g.blocks \o chunk.Blocks

\* C5's case: a later frame has called loadChunk again on the stored keys
\* and has loaded new ones
C5_Witness ==
    /\ steps >= 2
    /\ last.newKeys # {}
    /\ \E key \in DOMAIN g.chunks : key \notin last.newKeys

\* C6: right after updateChunks, every chunk within 3 of the player's chunk
\* in both directions is in g.chunks, the player's chunk being the floor of
\* the position over 500, for negative coordinates too.
C6_WindowLoaded ==
    steps >= 1 =>
        \A cx \in (chunkOf(last.px) - 3)..(chunkOf(last.px) + 3),
           cy \in (chunkOf(last.py) - 3)..(chunkOf(last.py) + 3) :
            chunkKey(cx, cy) \in DOMAIN g.chunks

\* C6's cases: a player at a negative coordinate, and one who has moved to
\* another chunk
C6_Witness ==
    /\ steps >= 2
    /\ last.py >= 0
    /\ chunkKey(0, 3) \in DOMAIN g.chunks
    /\ chunkKey(-3, -4) \in DOMAIN g.chunks

\* C7: a chunk stored under a key is never replaced, regenerated or
\* deleted, its Blocks never change, and a generated block the player has
\* removed from g.blocks is not put back by a later updateChunks (here: the
\* block at the cell (DigX, DigY), in a frame without a placement).
C7_ChunksNeverChange ==
    [][/\ \A key \in DOMAIN g.chunks :
             key \in DOMAIN g'.chunks /\ g'.chunks[key] = g.chunks[key]
       /\ (/\ \E key \in DOMAIN g.chunks :
                <<DigX, DigY>> \in cellsOf(g.chunks[key].Blocks)
           /\ ~isBlockAt(g, DigX, DigY)
           /\ ~last'.in.mouseRight /\ last'.in.middle = "up")
          => ~isBlockAt(g', DigX, DigY)]_vars

(* ---------------- properties of addBlock and removeBlock --------------- *)
\* twice the distance between the centre of the cell at (x, y) and the
\* centre (playerX + 25, playerY + 25) of gm's player, squared
centreDistanceSq4(gm, x, y) ==
    LET dx == (2 * x + BlockSize) - (2 * gm.playerX + PlayerSize)
        dy == (2 * y + BlockSize) - (2 * gm.playerY + PlayerSize)
    IN dx * dx + dy * dy

\* C3: from a list with no two blocks at the same (X, Y), any sequence of
\* addBlock and removeBlock calls, in either mode and for any player
\* position, leaves at most one block at every (X, Y).
C3_EditsKeepCellsUnique ==
    \A i \in 1..Len(g.blocks), j \in 1..Len(g.blocks) :
        (g.blocks[i].X = g.blocks[j].X /\ g.blocks[i].Y = g.blocks[j].Y)
            => i = j

\* C3's case: a block added after a removal, at a cell that held a block
C3_Witness ==
    /\ steps = MaxEditSteps
    /\ last.op = "addBlock"
    /\ Len(g.blocks) = Len(last.before.blocks) + 1
    /\ last.previous = <<"removeBlock", last.x, last.y>>
    /\ Len(last.before.blocks) >= 1

\* C8: addBlock at a cell (x, y) where isBlockAt(x, y) already holds never
\* changes g.blocks, in Creative and in Survival mode, whatever the player
\* position and the selected item type.
C8_OccupiedCellUnchanged ==
    (last.op = "addBlock" /\ isBlockAt(last.before, last.x, last.y))
        => g.blocks = last.before.blocks

\* C8's case: a Creative placement on a block, far from the player
C8_Witness ==
    /\ last.op = "addBlock"
    /\ isBlockAt(last.before, last.x, last.y)
    /\ last.before.gameMode = GameModeCreative
    /\ last.before.currentItemType # ItemTypeGrass
    /\ centreDistanceSq4(last.before, last.x, last.y)
           > 4 * MaxPlaceDistance * MaxPlaceDistance

\* C9: in Creative mode a placement at a cell with no block succeeds
\* whatever the distance and the neighbours: isBlockAt(x, y) holds
\* afterwards and the number of blocks grew by exactly one; a second
\* placement at the same cell leaves the number of blocks unchanged.
C9_CreativePlacementSucceeds ==
    (/\ last.op = "addBlock"
     /\ last.before.gameMode = GameModeCreative
     /\ ~isBlockAt(last.before, last.x, last.y))
        => /\ isBlockAt(g, last.x, last.y)
           /\ Len(g.blocks) = Len(last.before.blocks) + 1
           /\ Len(addBlock(g, last.x, last.y).blocks) = Len(g.blocks)

\* C9's case: a Creative placement out of reach, off the row y = 0 and
\* without a neighbour
C9_Witness ==
    /\ last.op = "addBlock"
    /\ last.before.gameMode = GameModeCreative
    /\ ~isBlockAt(last.before, last.x, last.y)
    /\ ~isBlockAdjacent(last.before, last.x, last.y)
    /\ centreDistanceSq4(last.before, last.x, last.y)
           > 4 * MaxPlaceDistance * MaxPlaceDistance
    /\ Len(g.blocks) = Len(last.before.blocks) + 1

\* C10: in Survival mode a placement at a cell whose centre is farther than
\* MaxPlaceDistance from the player's centre never adds a block, whether
\* or not the cell has an occupied neighbour or lies at y = 0.
C10_SurvivalOutOfReach ==
    (/\ last.op = "addBlock"
     /\ last.before.gameMode = GameModeSurvival
     /\ centreDistanceSq4(last.before, last.x, last.y)
            > 4 * MaxPlaceDistance * MaxPlaceDistance)
        => g.blocks = last.before.blocks

\* C10's case: a Survival placement out of reach at a free cell next to a
\* block, off the row y = 0
C10_Witness ==
    /\ last.op = "addBlock"
    /\ last.before.gameMode = GameModeSurvival
    /\ centreDistanceSq4(last.before, last.x, last.y)
           > 4 * MaxPlaceDistance * MaxPlaceDistance
    /\ ~isBlockAt(last.before, last.x, last.y)
    /\ isBlockAt(last.before, last.x - BlockSize, last.y)
    /\ last.y # 0
    /\ g.blocks = last.before.blocks

(* ---------------- properties of placement through Update --------------- *)
\* the cell under the mouse in the frame just taken
lastCellX == getBlockCoordinate(last.in.mouseX)
lastCellY == getBlockCoordinate(last.in.mouseY)

\* C11: in Survival mode a right-click placement in Update adds a block
\* whenever the cell is empty, its centre is at most MaxPlaceDistance from
\* the player's centre and it is next to a block or at y = 0: no further
\* condition refuses it.  (A refused placement leaves g.blocks as it was, so
\* the cell and its neighbours are read from g.)
C11_SurvivalPlacementAdds ==
    (/\ last.op = "Update"
     /\ last.in.mouseRight /\ ~last.in.mouseLeft /\ last.in.middle = "up"
     /\ g.gameMode = GameModeSurvival
     /\ centreDistanceSq4([playerX |-> last.px, playerY |-> last.py],
                          lastCellX, lastCellY)
            <= 4 * MaxPlaceDistance * MaxPlaceDistance
     /\ \/ lastCellY = 0
        \/ <<lastCellX, lastCellY - BlockSize>> \in cellsOf(g.blocks)
        \/ <<lastCellX, lastCellY + BlockSize>> \in cellsOf(g.blocks)
        \/ <<lastCellX - BlockSize, lastCellY>> \in cellsOf(g.blocks)
        \/ <<lastCellX + BlockSize, lastCellY>> \in cellsOf(g.blocks))
        => <<lastCellX, lastCellY>> \in cellsOf(g.blocks)

\* the cells, in blocks, isBlockAdjacent is asked about: the cells of
\* EditCells, a cell on each of the four sides of one of them, and a cell
\* away from all of them
ProbeCells ==
    EditCells \cup {<<0, -1>>, <<2, 0>>, <<1, 1>>, <<6, -2>>, <<8, 0>>, <<3, -2>>}

\* C12: isBlockAdjacent(x, y) is true exactly when one of the cells
\* (x, y-50), (x, y+50), (x-50, y), (x+50, y) holds a block or y = 0; so
\* isBlockAdjacent(x, 0) is true for every x and every block list, the
\* empty one too.
C12_AdjacentExactly ==
    \A c \in ProbeCells :
        LET x == c[1] * BlockSize
            y == c[2] * BlockSize
            around == {<<x, y - BlockSize>>, <<x, y + BlockSize>>,
                       <<x - BlockSize, y>>, <<x + BlockSize, y>>}
        IN isBlockAdjacent(g, x, y)
               <=> (around \cap cellsOf(g.blocks) # {} \/ c[2] = 0)

\* C12's case: a Survival placement on the row y = 0 of an empty world,
\* which only the rule for y = 0 lets through
C12_Witness ==
    /\ last.op = "addBlock"
    /\ last.before.gameMode = GameModeSurvival
    /\ last.before.blocks = <<>>
    /\ last.y = 0
    /\ isBlockAdjacent(last.before, last.x, last.y)
    /\ Len(g.blocks) = 1

(* ---------------- properties of the player's movement ------------------ *)
\* the blocks whose horizontal range strictly overlaps that of a player at x
\* and whose top is at the player's feet when the player is at y
supports(blocks, x, y) ==
    SelectSeq(blocks, LAMBDA b : /\ y = b.Y - PlayerSize
                                 /\ x < b.X + b.W
                                 /\ x + PlayerSize > b.X)

afterUpdate(gm, tg, in) ==
    LET g1 == modeAndHotbar(initGame(gm, tg), in)
        g4 == breakOrPlace(boxSelection(updateChunks(g1, tg), in), in)
    IN verticalPhase(jumpAndGravity(horizontalPhase(g4, in), in))

\* C17: in a frame with jump input the velocity is set to -JumpPower
\* before gravity is added if and only if playerOnGround held at the end of
\* the frame before; with jump input in the air the frame ends as the same
\* frame without the jump input does.
C17_JumpOnlyFromGround ==
    [][(last'.op = "Update" /\ last'.in.jump) =>
          IF g.playerOnGround
          THEN last'.velocity = -JumpPower + Gravity
          ELSE /\ last'.velocity # -JumpPower + Gravity
               /\ g' = afterUpdate(g, noise, [last'.in EXCEPT !.jump = FALSE])]_vars

\* C17's case: a jump from the ground
C17_Witness ==
    /\ last.op = "Update"
    /\ last.in.jump /\ last.wasOnGround
    /\ last.velocity = -JumpPower + Gravity
    /\ last.velocityBefore = 0

\* C18: at the end of every frame playerOnGround is true only after a
\* top-rest clamp of this frame: then playerVelocityY = 0 and some block has
\* playerY = block.Y - PlayerSize and a horizontal range that strictly
\* overlaps the player's.
C18_GroundedMeansResting ==
    g.playerOnGround
        => /\ g.playerVelocityY = 0
           /\ last.op = "Update" /\ last.velocity > 0
           /\ supports(g.blocks, g.playerX, g.playerY) # <<>>

\* C18's case: the frame in which a falling player lands
C18_Witness ==
    /\ last.op = "Update"
    /\ ~last.wasOnGround
    /\ last.velocity > Gravity
    /\ g.playerOnGround
    /\ supports(g.blocks, g.playerX, g.playerY) # <<>>

\* C19: after gravity, and so at the end of every frame, playerVelocityY is
\* at most PlayerMaxFall, and the player moves down by at most
\* PlayerMaxFall in one frame.
C19_FallSpeedLimited ==
    last.op = "Update"
        => /\ last.velocity <= PlayerMaxFall
           /\ g.playerVelocityY <= PlayerMaxFall
           /\ g.playerY - last.oldY <= PlayerMaxFall

\* C19's case: a frame in which gravity would take the velocity past the
\* limit
C19_Witness ==
    /\ last.op = "Update"
    /\ last.velocityBefore = PlayerMaxFall
    /\ last.velocity = PlayerMaxFall
    /\ g.playerY - last.oldY = PlayerMaxFall

\* the x the horizontal move of the frame just taken led to
movedX ==
    last.oldX - (IF last.in.left THEN PlayerSpeed ELSE 0)
              + (IF last.in.right THEN PlayerSpeed ELSE 0)

\* C20: a block that overlaps the player's rectangle after the horizontal
\* move puts the player at block.X - PlayerSize if oldX <= block.X -
\* PlayerSize, at block.X + block.W if oldX >= block.X + block.W, and
\* leaves x alone otherwise; the horizontal phase changes neither playerY
\* nor playerVelocityY.
C20_HorizontalResolution ==
    last.op = "Update" =>
        LET over == overlapping(g.blocks, movedX, last.oldY)
            fromLeft == SelectSeq(over, LAMBDA b : last.oldX <= b.X - PlayerSize)
            fromRight == SelectSeq(over, LAMBDA b : last.oldX >= b.X + b.W)
        IN /\ \A i \in 1..Len(fromLeft) :
                 g.playerX = fromLeft[i].X - PlayerSize
           /\ \A i \in 1..Len(fromRight) :
                 g.playerX = fromRight[i].X + fromRight[i].W
           /\ (fromLeft = <<>> /\ fromRight = <<>>) => g.playerX = movedX
           /\ \A k \in KeyInputs :
                 LET h == horizontalPhase(g, [NoInput EXCEPT !.left = k[1],
                                                            !.right = k[2],
                                                            !.jump = k[3]])
                 IN /\ h.playerY = g.playerY
                    /\ h.playerVelocityY = g.playerVelocityY

\* C20's case: a move to the left into a block whose right edge is at the
\* old x, with other blocks overlapping the player that leave x alone
C20_Witness ==
    /\ last.op = "Update"
    /\ last.in.left /\ ~last.in.right
    /\ movedX < last.oldX
    /\ g.playerX = last.oldX
    /\ \E i \in 1..Len(g.blocks) :
          /\ checkCollision(playerRect(movedX, last.oldY), g.blocks[i])
          /\ last.oldX >= g.blocks[i].X + g.blocks[i].W
    /\ \E i \in 1..Len(g.blocks) :
          /\ checkCollision(playerRect(movedX, last.oldY), g.blocks[i])
          /\ last.oldX < g.blocks[i].X + g.blocks[i].W
          /\ last.oldX > g.blocks[i].X - PlayerSize

(* ---------------- properties of removal through Update ----------------- *)
\* the positions in a list of the blocks at (x, y)
positionsAt(blocks, x, y) ==
    {i \in 1..Len(blocks) : blocks[i].X = x /\ blocks[i].Y = y}

\* C14: removeBlock(x, y) deletes exactly one block with that (X, Y) when
\* there is one and does nothing otherwise; the other blocks stay, in their
\* order and with their coordinates and types, and g.chunks is not
\* touched.  (Stated for the left-click frames in which updateChunks loads
\* nothing, so that g.blocks is the list removeBlock is called on.)
C14_RemoveExactlyOne ==
    [][(/\ last'.op = "Update" /\ last'.in.mouseLeft
        /\ last'.in.middle = "up" /\ last'.newKeys = {})
          => LET x == getBlockCoordinate(last'.in.mouseX)
                 y == getBlockCoordinate(last'.in.mouseY)
                 at == positionsAt(g.blocks, x, y)
             IN /\ g'.chunks = g.chunks
                /\ at = {} => g'.blocks = g.blocks
                /\ at # {} =>
                     /\ Len(g'.blocks) = Len(g.blocks) - 1
                     /\ \E i \in at :
                           /\ \A j \in 1..(i - 1) : g'.blocks[j] = g.blocks[j]
                           /\ \A j \in i..Len(g'.blocks) :
                                 g'.blocks[j] = g.blocks[j + 1]]_vars

\* C14's cases: a second click on a cell that held several blocks, which
\* takes one more of them, and a click on a cell without a block
C14_Witness ==
    /\ steps = 2
    /\ last.in.mouseLeft /\ last.newKeys = {}
    /\ last.afterEdit = last.afterChunks - 1
    /\ Cardinality(positionsAt(g.blocks, lastCellX, lastCellY)) >= 2

\* the band of chunk rows generateChunk fills for a player at height y
inBand(y, chunkY) ==
    LET playerChunkY == chunkOf(y)
    IN chunkY >= playerChunkY - 3 /\ chunkY <= playerChunkY + 3

\* C15: for every chunk, the blocks generateChunk returns for the player of
\* this state and for a player at any other position are the same sequence
\* whenever the chunk is in the band of both players
C15_GenerationIgnoresPlayer ==
    \A p \in GenPlayers, chunkX \in GenChunkXs, chunkY \in GenChunkYs :
        (inBand(g.playerY, chunkY) /\ inBand(p[2], chunkY))
        => generateChunk(g, noise, chunkX, chunkY).Blocks
           = generateChunk([g EXCEPT !.playerX = p[1], !.playerY = p[2]],
                           noise, chunkX, chunkY).Blocks

\* a chunk next to the player, in the row of the spawn, was generated with
\* ground at the height of the spawn, and another player has it in its band
\* without being next to it
C15_Witness ==
    /\ last.op = "loadChunk" /\ ~last.wasStored
    /\ last.chunkY = 0
    /\ inBand(g.playerY, 0)
    /\ chunkOf(g.playerX) = last.chunkX
    /\ \E i \in DOMAIN g.blocks : g.blocks[i].Y = 0
    /\ \E i \in DOMAIN g.blocks : Abs(g.blocks[i].X) <= 3 * BlockSize
    /\ \E p \in GenPlayers :
          /\ inBand(p[2], 0)
          /\ Abs(chunkOf(p[1]) - last.chunkX) > 1

\* C16: generateChunk returns a chunk with the requested coordinates, and
\* one without blocks when the row is more than 3 above or below the row
\* of the player
C16_OutOfBandIsEmpty ==
    \A chunkX \in GenChunkXs, chunkY \in GenChunkYs :
        LET chunk == generateChunk(g, noise, chunkX, chunkY)
            playerChunkY == chunkOf(g.playerY)
        IN /\ chunk.X = chunkX
           /\ chunk.Y = chunkY
           /\ (chunkY > playerChunkY + 3 \/ chunkY < playerChunkY - 3)
              => chunk.Blocks = <<>>

\* an out-of-band chunk was generated and stored without blocks, next to an
\* in-band chunk with blocks
C16_Witness ==
    /\ last.op = "loadChunk" /\ ~last.wasStored
    /\ ~inBand(g.playerY, last.chunkY)
    /\ chunkKey(last.chunkX, last.chunkY) \in DOMAIN g.chunks
    /\ g.chunks[chunkKey(last.chunkX, last.chunkY)]
          = [X |-> last.chunkX, Y |-> last.chunkY, Blocks |-> <<>>]
    /\ g.blocks # <<>>

(* ---------------- properties of the rising player --------------------- *)
\* the blocks that overlap the rectangle of a player moved to (x, y) and
\* whose bottom is at or above the top the player had at oldY
ceilings(blocks, x, y, oldY) ==
    SelectSeq(blocks, LAMBDA b : /\ checkCollision(playerRect(x, y), b)
                                 /\ oldY >= b.Y + b.H)

\* C21: when the velocity after gravity is negative and the moved rectangle
\* overlaps a block with oldY >= block.Y + block.H, the frame ends with
\* playerY = block.Y + block.H, playerVelocityY = 0 and playerOnGround false.
C21_RisingStopsUnderBlock ==
    (last.op = "Update" /\ last.velocity < 0) =>
        LET over == ceilings(g.blocks, g.playerX,
                             last.oldY + last.velocity, last.oldY)
        IN \A i \in 1..Len(over) :
              /\ g.playerY = over[i].Y + over[i].H
              /\ g.playerVelocityY = 0
              /\ ~g.playerOnGround

\* C21's case: a jump from the ground that ends under a block
C21_Witness ==
    /\ last.op = "Update"
    /\ last.in.jump /\ last.wasOnGround
    /\ last.velocity = -JumpPower + Gravity
    /\ ceilings(g.blocks, g.playerX, last.oldY + last.velocity, last.oldY) # <<>>
    /\ g.playerY = last.oldY
    /\ g.playerVelocityY = 0

(* ---------------- properties of the order of the phases ---------------- *)
\* the number of blocks at (x, y) in the chunks stored under the keys ks
generatedAt(gm, ks, x, y) ==
    Cardinality({<<k, i>> \in UNION {{k} \X DOMAIN gm.chunks[k].Blocks : k \in ks} :
                    gm.chunks[k].Blocks[i].X = x /\ gm.chunks[k].Blocks[i].Y = y})

\* C22: a frame loads chunks, then breaks or places, then runs the
\* horizontal phase, then the jump and gravity, then the vertical phase: a
\* click of the frame acts on the blocks the frame loaded, the x the frame
\* ends with is the horizontal resolution against the blocks the frame ends
\* with, and the frame ends as the vertical resolution against these blocks
\* at that x does.
C22_PhaseOrder ==
    last.op = "Update" =>
        /\ (last.in.mouseLeft /\ generatedAt(g, last.newKeys, lastCellX, lastCellY) > 0)
              => last.afterEdit = last.afterChunks - 1
        /\ g.playerX =
              horizontalPhase([g EXCEPT !.playerX = last.oldX,
                                        !.playerY = last.oldY], last.in).playerX
        /\ g = verticalPhase([g EXCEPT !.playerY = last.oldY,
                                       !.playerVelocityY = last.velocity])

\* C22's cases: a falling player lands on the block placed in the same frame
C22_Witness ==
    /\ last.op = "Update" /\ last.in.mouseRight
    /\ last.afterEdit = last.afterChunks + 1
    /\ ~last.wasOnGround
    /\ g.playerOnGround
    /\ g.playerY = CatchY - PlayerSize

(* ---------------- properties of checkCollision ------------------------- *)
\* the points strictly inside a rectangle, on a grid twice as fine as the
\* coordinates of the rectangles
inside(r) ==
    { <<px, py>> \in (2 * r.X + 1 .. 2 * (r.X + r.W) - 1)
                     \X (2 * r.Y + 1 .. 2 * (r.Y + r.H) - 1) : TRUE }

\* two rectangles that share a part of an edge line or a corner
touching(a, b) ==
    \/ a.X + a.W = b.X \/ b.X + b.W = a.X
    \/ a.Y + a.H = b.Y \/ b.Y + b.H = a.Y

\* C23: checkCollision(a, b) is true exactly when the rectangles share an
\* inner point, which is the strict inequality on all four sides; touching
\* rectangles do not collide, and the test gives the same for (b, a).
C23_StrictOverlap ==
    last.op = "checkCollision" =>
        /\ last.result = (inside(last.a) \cap inside(last.b) # {})
        /\ last.result = (/\ last.a.X < last.b.X + last.b.W
                          /\ last.b.X < last.a.X + last.a.W
                          /\ last.a.Y < last.b.Y + last.b.H
                          /\ last.b.Y < last.a.Y + last.a.H)
        /\ touching(last.a, last.b) => ~last.result
        /\ last.result = checkCollision(last.b, last.a)

\* C23's case: two rectangles side by side, edge on edge, with a common
\* range of y, which do not collide
C23_Witness ==
    /\ last.op = "checkCollision"
    /\ last.a.X + last.a.W = last.b.X
    /\ last.a.Y < last.b.Y + last.b.H
    /\ last.a.Y + last.a.H > last.b.Y
    /\ ~last.result

(* ---------------- properties of getTerrainType ------------------------- *)
\* the seven bands from the lowest to the highest, and the values at which
\* the next band starts
bandOrder ==
    <<TerrainTypeDesert, TerrainTypeSavanna, TerrainTypePlains,
      TerrainTypeForest, TerrainTypeHills, TerrainTypeMountains,
      TerrainTypeSnowyPlains>>

bandStarts == {-40, -20, 0, 20, 40, 60}

\* the continental signal getTerrainType reads at column x
continentalAt(tg, x) ==
    IF Abs(x) <= NearColumns THEN clamp(tg.continental, ContinentalNearCap)
    ELSE tg.continental

\* C24: getTerrainType returns the band of the continental signal: Desert
\* below -0.4, then Savanna, Plains, Forest, Hills, Mountains in steps of
\* 0.2, SnowyPlains from 0.6 on; every value has exactly one band and no
\* other terrain type is returned.
C24_SevenBands ==
    last.op = "getTerrainType" =>
        LET c == continentalAt(noise, last.x)
            band == 1 + Cardinality({s \in bandStarts : s <= c})
        IN /\ last.terrainType = bandOrder[band]
           /\ Cardinality({i \in DOMAIN bandOrder :
                              bandOrder[i] = last.terrainType}) = 1
           /\ last.terrainType \notin {TerrainTypeSwamp, TerrainTypeJungle,
                                       TerrainTypeTaiga, TerrainTypeCanyon}

\* C24's case: the signal is exactly at the start of a band
C24_Witness ==
    /\ last.op = "getTerrainType"
    /\ Abs(last.x) > NearColumns
    /\ noise.continental = 0
    /\ last.terrainType = TerrainTypeForest

(* ---------------- properties of the generated columns ------------------ *)
\* the terrain fill of column worldX among the blocks of a chunk: the
\* blocks of the column that are one cell wide and not above its surface
\* (trunks and cacti stand on the surface, canopies are three cells wide)
terrainOf(blocks, tg, worldX) ==
    SelectSeq(blocks, LAMBDA b : /\ b.X = worldX * BlockSize
                                 /\ b.W = BlockSize
                                 /\ b.Y <= getHeight(tg, worldX) * BlockSize)

\* the depth of the fill of a terrain type
maxDepthOf(terrainType) ==
    CASE terrainType = TerrainTypeMountains -> 8
      [] terrainType = TerrainTypeHills -> 6
      [] terrainType = TerrainTypeDesert -> 4
      [] OTHER -> 5

\* the chunk loadChunk has just generated inside the band
lastChunkInBand ==
    /\ last.op = "loadChunk" /\ ~last.wasStored
    /\ inBand(g.playerY, last.chunkY)

lastChunkBlocks == g.chunks[chunkKey(last.chunkX, last.chunkY)].Blocks

\* C25: a generated column has one terrain block for every y from height
\* down to height - maxDepth (8 for Mountains, 6 for Hills, 4 for Desert, 5
\* otherwise) that hasCave does not flag, in this order; hasCave flags only
\* cells with y > -5; the fill has at most maxDepth + 1 blocks, at distinct
\* cells.
C25_TerrainFill ==
    lastChunkInBand =>
        \A i \in 0..(ChunkSize - 1) :
            LET worldX == last.chunkX * ChunkSize + i
                height == getHeight(noise, worldX)
                maxDepth == maxDepthOf(getTerrainType(noise, worldX))
                fill == terrainOf(lastChunkBlocks, noise, worldX)
                ys == {y \in (height - maxDepth)..height :
                          ~hasCave(noise, worldX, y)}
            IN /\ {fill[k].Y : k \in DOMAIN fill} = {y * BlockSize : y \in ys}
               /\ Len(fill) = Cardinality(ys)
               /\ \A k \in 1..(Len(fill) - 1) : fill[k].Y > fill[k + 1].Y
               /\ Len(fill) <= maxDepth + 1
               /\ \A y \in (height - maxDepth)..height :
                     hasCave(noise, worldX, y) => y > -5

\* C25's cases: a column with caves in its upper cells and a whole fill in
\* the cells from -5 down, and a column of the deepest fill
C25_Witness ==
    /\ lastChunkInBand
    /\ \E i \in 0..(ChunkSize - 1) :
          LET worldX == last.chunkX * ChunkSize + i
              height == getHeight(noise, worldX)
              fill == terrainOf(lastChunkBlocks, noise, worldX)
          IN /\ height > -5
             /\ hasCave(noise, worldX, height)
             /\ Len(fill) > 0
             /\ fill[1].Y = -5 * BlockSize

(* ---------------- the keep-clear rule ---------------------------------- *)
\* the surface block of column worldX meets the rectangle generateChunk
\* keeps clear (y from -40 to -40 + PlayerSize)
surfaceInKeepClear(tg, worldX) ==
    LET blockY == getHeight(tg, worldX) * BlockSize
    IN /\ blockY < -40 * Unit + PlayerSize
       /\ blockY + BlockSize > -40 * Unit

\* C26: no block of a column within the spawn radius whose surface block
\* meets the keep-clear rectangle is in g.blocks.
C26_KeepClearColumnsEmpty ==
    \A worldX \in -NearColumns..NearColumns :
        surfaceInKeepClear(noise, worldX)
            => \A i \in DOMAIN g.blocks : g.blocks[i].X # worldX * BlockSize

\* C26 has no case: the surface of the columns within the spawn radius is
\* at height -2 or lower, under the keep-clear rectangle, in every field
C26_NoSurfaceInKeepClear ==
    \A worldX \in -NearColumns..NearColumns :
        /\ ~surfaceInKeepClear(noise, worldX)
        /\ getHeight(noise, worldX) <= -2

(* ---------------- the surface of a column ------------------------------ *)
\* the blocks of a chunk that stand in column worldX and are one cell wide
columnOf(blocks, worldX) ==
    SelectSeq(blocks, LAMBDA b : b.X = worldX * BlockSize /\ b.W = BlockSize)

\* C27: in a generated column without tree and cactus the block at
\* Y = height * BlockSize is the exposed surface: every other block of the
\* column is below it in the direction of gravity, at a larger Y, so that a
\* falling player, who moves to larger Y, meets the depth-0 block first.
C27_SurfaceExposed ==
    lastChunkInBand =>
        \A i \in 0..(ChunkSize - 1) :
            LET worldX == last.chunkX * ChunkSize + i
                height == getHeight(noise, worldX)
                terrainType == getTerrainType(noise, worldX)
                col == columnOf(lastChunkBlocks, worldX)
            IN (/\ ~hasTree(noise, worldX, height, terrainType)
                /\ decorationBlocks(noise, worldX, height, terrainType, FALSE) = <<>>)
               => \A k \in DOMAIN col :
                     \/ col[k].Y = height * BlockSize
                     \/ col[k].Y > height * BlockSize

(* ---------------- the cell after a removal ----------------------------- *)
\* C28: immediately after removeBlock(x, y) isBlockAt(x, y) is false.
\* (Stated for the left-click frames of Update: removeBlock is the last
\* step of such a frame that touches g.blocks.)
C28_RemovalEffective ==
    (/\ last.op = "Update" /\ last.in.mouseLeft /\ last.in.middle = "up")
        => ~isBlockAt(g, lastCellX, lastCellY)

(* ---------------- a chunk and its rectangle ---------------------------- *)
\* C29: every block stored in chunk (cx, cy) lies in that chunk's world
\* rectangle, cx*500 <= X < (cx+1)*500 and cy*500 <= Y < (cy+1)*500, and so
\* two chunks with different keys never hold a block at the same cell.
C29_BlocksInsideOwnChunk ==
    /\ \A key \in DOMAIN g.chunks :
          LET chunk == g.chunks[key]
          IN \A k \in DOMAIN chunk.Blocks :
                /\ chunk.X * ChunkWorldSize <= chunk.Blocks[k].X
                /\ chunk.Blocks[k].X < (chunk.X + 1) * ChunkWorldSize
                /\ chunk.Y * ChunkWorldSize <= chunk.Blocks[k].Y
                /\ chunk.Blocks[k].Y < (chunk.Y + 1) * ChunkWorldSize
    /\ \A key1, key2 \in DOMAIN g.chunks :
          key1 # key2 =>
              \A k1 \in DOMAIN g.chunks[key1].Blocks,
                 k2 \in DOMAIN g.chunks[key2].Blocks :
                    \/ g.chunks[key1].Blocks[k1].X # g.chunks[key2].Blocks[k2].X
                    \/ g.chunks[key1].Blocks[k1].Y # g.chunks[key2].Blocks[k2].Y

(* ---------------- the chunks updateChunks loads ------------------------ *)
\* C30: every chunk updateChunks loads is generated inside the band of the
\* player's position at that time, |chunkY - playerChunkY| <= 3, so no chunk
\* stored in g.chunks is empty because of the band: each holds the columns
\* generateChunk computes for its chunkX.
C30_LoadsInsideBand ==
    /\ last.op = "Update" =>
          \A key \in last.newKeys : inBand(last.py, g.chunks[key].Y)
    /\ \A key \in DOMAIN g.chunks :
          LET chunk == g.chunks[key]
          IN /\ chunk.Blocks # <<>>
             /\ \E isNearPlayerSpawn \in BOOLEAN :
                   chunk.Blocks = chunkTable[<<noise, chunk.X, isNearPlayerSpawn>>]

\* C30's case: the player has fallen into another row of chunks and the
\* frame loads the row 3 below the new one
C30_Witness ==
    /\ last.op = "Update" /\ steps >= 2
    /\ chunkOf(last.py) >= 0
    /\ \E key \in last.newKeys :
          /\ g.chunks[key].Y = chunkOf(last.py) + 3
          /\ g.chunks[key].Blocks # <<>>

====
